---- MODULE Spec2Model ----
(***************************************************************************)
(* A model of package template (src/template/template.go): the message     *)
(* collator, Parse / Vars / Identifiers, Template.Execute with its legacy   *)
(* prompt/response conversion, and the template catalog behind Named; and   *)
(* of tempzipfs.Open (src/convert/fs.go), which stages large archive        *)
(* entries in a directory.                                                  *)
(*                                                                         *)
(* Text is modelled as a sequence of tokens.  A token is a string that is  *)
(* either pure white space (" ", "\n\n"), the generic image placeholder     *)
(* "[img]", a numbered image tag "[img-N]", or a word without white space. *)
(* The empty Go string is the empty sequence, so s != "" is Len(s) > 0.    *)
(***************************************************************************)
EXTENDS Integers, Sequences, FiniteSets, TLC

VARIABLES
    cpc,        \* collate harness: "idle" before the call, "returned" after it
    cIn,        \* the []api.Message handed to collate
    cOut,       \* what collate returned: [system, collated, n]
    tSrc,       \* the string handed to Parse
    tState,     \* the Template: "none" before Parse, then "parsed" or "error"
    tRaw,       \* Template.raw
    tDefs,      \* the associated templates other than the main one ({{ define }})
    heap,       \* the parse trees' root node lists: heap[0] is the Template's own
                \* tree, heap[c] the tree Copy() made for call c
    calls,      \* per Execute call: its position and its locals
    embedded,   \* what go:embed put in the binary: index.json and the *.gotmpl files
    once,       \* templatesOnce: "fresh", "running" or "done"
    onceVal,    \* the two results templatesOnce keeps: [templates, err]
    loads,      \* how often the function given to sync.OnceValues has run
    ncalls,     \* per Named caller: its position and its locals
    goos,       \* the platform of the build: "linux" or "windows"
    archive,    \* the entries of the archive z.r reads
    dirs,       \* the directories that exist under the staging directory z.p
    files,      \* the files under z.p: by path, the bytes held, or NoFile
    fcalls,     \* per Open call: its position and its locals
    opened,     \* by name, whether an Open has got to the staging of the entry
    served      \* by name, whether an Open has returned the staged file

collateVars == <<cpc, cIn, cOut>>

tmplVars == <<tSrc, tState, tRaw, tDefs>>

execVars == <<tSrc, tState, tRaw, tDefs, heap, calls>>

namedVars == <<embedded, once, onceVal, loads, ncalls>>

stageVars == <<goos, archive, dirs, files, fcalls, opened, served>>

vars == <<cpc, cIn, cOut, tSrc, tState, tRaw, tDefs, heap, calls,
          embedded, once, onceVal, loads, ncalls,
          goos, archive, dirs, files, fcalls, opened, served>>

----------------------------------------------------------------------------
(* Bounds of the model *)

\* longest message list handed to collate
MaxCollateMsgs == 3

\* longest message list handed to Execute (a few longer ones are added)
MaxMsgs == 4

\* Execute calls that may run at once on the one Template
NumCalls == 2

\* goroutines that call Named
NumCallers == 2

\* goroutines that call tempzipfs.Open
NumOpeners == 2

----------------------------------------------------------------------------
(* Strings *)

NL2 == "\n\n"

Placeholder == "[img]"

IsSpace(tok) == tok \in {" ", NL2}

\* strings.Contains(s, tok) for a one-token needle
Contains(s, tok) == \E i \in 1..Len(s) : s[i] = tok

\* slices.Contains
SliceContains(s, e) == \E i \in 1..Len(s) : s[i] = e

\* strings.Replace(s, old, new, 1): the first occurrence only
ReplaceFirst(s, old, new) ==
    IF Contains(s, old)
    THEN LET i == CHOOSE k \in 1..Len(s) :
                      s[k] = old /\ \A j \in 1..(k - 1) : s[j] # old
         IN  [s EXCEPT ![i] = new]
    ELSE s

\* strings.TrimSpace: leading and trailing white space removed
TrimSpace(s) ==
    LET keep == {i \in 1..Len(s) : ~IsSpace(s[i])}
    IN  IF keep = {} THEN <<>>
        ELSE LET lo == CHOOSE i \in keep : \A j \in keep : i <= j
                 hi == CHOOSE i \in keep : \A j \in keep : j <= i
             IN  SubSeq(s, lo, hi)

\* fmt.Sprintf("[img-%d]", n)
ImageTag(n) == "[img-" \o ToString(n) \o "]"

----------------------------------------------------------------------------
(* collate *)

TagOneImageAppend(content, n) ==
    LET c == IF ~Contains(content, Placeholder)
             THEN TrimSpace(content \o <<" ", Placeholder>>)
             ELSE content
    IN  ReplaceFirst(c, Placeholder, ImageTag(n))

\* One pass of the loop over msg.Images: the tag takes the place of the first
\* "[img]", which is put in front of the content when the content has none.
TagOneImage(content, n) ==
    LET c == IF ~Contains(content, Placeholder)
             THEN TrimSpace(<<Placeholder, " ">> \o content)
             ELSE content
    IN  ReplaceFirst(c, Placeholder, ImageTag(n))

\* for range msg.Images { ...; n++ }: the content and the counter afterwards
RECURSIVE TagImages(_, _, _)
TagImages(content, images, n) ==
    IF images = <<>>
    THEN [Content |-> content, n |-> n]
    ELSE TagImages(TagOneImage(content, n), Tail(images), n + 1)

\* if system != "" { system += "\n\n" }: what is put before a system message's content
SystemSeparator(system) == IF system # <<>> THEN <<NL2>> ELSE <<>>

MergesOnlyUser(collated, msg) ==
    Len(collated) > 0 /\ collated[Len(collated)].Role = msg.Role /\ msg.Role = "user"

\* whether msg is merged into the last collated entry
MergesIntoLast(collated, msg) ==
    Len(collated) > 0 /\ collated[Len(collated)].Role = msg.Role

CollateStepCounterPerMessage(st, m) ==
    IF m.Role = "system"
    THEN [st EXCEPT !.system = st.system \o SystemSeparator(st.system) \o m.Content]
    ELSE LET tagged == TagImages(m.Content, m.Images, 0)
             msg    == [m EXCEPT !.Content = tagged.Content]
         IN  IF MergesIntoLast(st.collated, msg)
             THEN [st EXCEPT
                      !.collated[Len(st.collated)].Content = @ \o <<NL2>> \o msg.Content,
                      !.n = tagged.n]
             ELSE [st EXCEPT
                      !.collated = Append(st.collated, msg),
                      !.n = tagged.n]

\* the body of collate's loop for one message
CollateStep(st, m) ==
    IF m.Role = "system"
    THEN [st EXCEPT !.system = st.system \o SystemSeparator(st.system) \o m.Content]
    ELSE LET tagged == TagImages(m.Content, m.Images, st.n)
             msg    == [m EXCEPT !.Content = tagged.Content]
         IN  IF MergesIntoLast(st.collated, msg)
             THEN [st EXCEPT
                      !.collated[Len(st.collated)].Content = @ \o <<NL2>> \o msg.Content,
                      !.n = tagged.n]
             ELSE [st EXCEPT
                      !.collated = Append(st.collated, msg),
                      !.n = tagged.n]

CollateInit == [system |-> <<>>, collated |-> <<>>, n |-> 0]

RECURSIVE CollateFrom(_, _)
CollateFrom(st, msgs) ==
    IF msgs = <<>> THEN st
    ELSE CollateFrom(CollateStep(st, Head(msgs)), Tail(msgs))

\* collate(msgs): system text, collated messages (and the image counter)
Collate(msgs) == CollateFrom(CollateInit, msgs)

----------------------------------------------------------------------------
(* Parse trees (text/template/parse): a node is a record tagged by type *)

Text(s) == [type |-> "Text", Text |-> s]

Dot == [type |-> "Dot"]

\* a function name in a command, such as eq or json
Identifier(name) == [type |-> "Identifier", Ident |-> name]

Field(ident) == [type |-> "Field", Ident |-> ident]

Variable(ident) == [type |-> "Variable", Ident |-> ident]

\* a pipeline: its commands, each the sequence of its arguments
Pipe(cmds) == [type |-> "Pipe", Cmds |-> cmds]

Action(pipe) == [type |-> "Action", Pipe |-> pipe]

List(nodes) == [type |-> "List", Nodes |-> nodes]

\* a nil *ListNode
NilList == [type |-> "nil"]

Branch(type, pipe, list, elseList) ==
    [type |-> type, Pipe |-> pipe, List |-> list, ElseList |-> elseList]

TemplateCall(name, pipe) == [type |-> "Template", Name |-> name, Pipe |-> pipe]

\* {{ .Name }}
FieldAction(name) == Action(Pipe(<< <<Field(<<name>>)>> >>))

\* var response: the node Parse appends, {{ .Response }}
response == FieldAction("Response")

RECURSIVE Identifiers(_)
RECURSIVE IdentifiersOfNodes(_)
RECURSIVE IdentifiersOfArgs(_)
RECURSIVE IdentifiersOfCmds(_)

\* Identifiers(n) appended over a node list
IdentifiersOfNodes(nodes) ==
    IF nodes = <<>> THEN <<>>
    ELSE Identifiers(Head(nodes)) \o IdentifiersOfNodes(Tail(nodes))

IdentifiersOfArgs(args) ==
    IF args = <<>> THEN <<>>
    ELSE Identifiers(Head(args)) \o IdentifiersOfArgs(Tail(args))

IdentifiersOfCmds(cmds) ==
    IF cmds = <<>> THEN <<>>
    ELSE IdentifiersOfArgs(Head(cmds)) \o IdentifiersOfCmds(Tail(cmds))

\* Identifiers walks the node tree returning any identifiers it finds
Identifiers(n) ==
    CASE n.type = "List" -> IdentifiersOfNodes(n.Nodes)
      [] n.type \in {"Template", "Action"} -> Identifiers(n.Pipe)
      [] n.type \in {"Branch", "If", "Range", "With"} ->
            Identifiers(n.Pipe)
            \o (IF n.List # NilList THEN Identifiers(n.List) ELSE <<>>)
            \o (IF n.ElseList # NilList THEN Identifiers(n.ElseList) ELSE <<>>)
      [] n.type = "Pipe" -> IdentifiersOfCmds(n.Cmds)
      [] n.type \in {"Field", "Variable"} -> n.Ident
      [] OTHER -> <<>>

\* strings.ToLower on the identifiers that occur
ToLower(id) ==
    CASE id = "Response" -> "response"
      [] id = "Messages" -> "messages"
      [] id = "Prompt" -> "prompt"
      [] id = "System" -> "system"
      [] id = "Role" -> "role"
      [] id = "Content" -> "content"
      [] id = "Tools" -> "tools"
      [] OTHER -> id

----------------------------------------------------------------------------
(* Template sources and what the template compiler makes of them *)

SrcDefault == "{{ .Prompt }}"

SrcInst ==
    "{{ if .System }}{{ .System }} {{ end }}[INST] {{ .Prompt }} [/INST] {{ .Response }}</s>"

SrcMessages == "{{ .System }}{{ range .Messages }}{{ .Role }}: {{ .Content }}{{ end }}"

SrcBoth ==
    "{{ if .Messages }}{{ range .Messages }}{{ .Content }}{{ end }}{{ else }}{{ .Prompt }}{{ end }}{{ .Response }}"

SrcLower == "{{ .Prompt }}{{ .response }}<eot>"

SrcDollar == "Q: {{ .Prompt }}{{ with .System }}{{ $.Response }}{{ end }}<eot>"

SrcDefine == "{{ define \"r\" }}{{ .Response }}{{ end }}{{ .Prompt }}{{ template \"r\" . }}"

\* .Response is a string: its field Text cannot be evaluated
SrcChain == "{{ .Prompt }}{{ .Response.Text }}"

SrcBad == "{{ .Prompt "

Sources ==
    {SrcDefault, SrcInst, SrcMessages, SrcBoth, SrcLower, SrcDollar, SrcDefine, SrcChain,
     SrcBad}

\* template.New("").Parse(s) fails
SyntaxError(s) == s = SrcBad

\* the root node list of the main template as parsed
CompiledRoot(s) ==
    CASE s = SrcDefault -> <<FieldAction("Prompt")>>
      [] s = SrcInst ->
            << Branch("If", Pipe(<< <<Field(<<"System">>)>> >>),
                      List(<<FieldAction("System"), Text(" ")>>), NilList),
               Text("[INST] "), FieldAction("Prompt"), Text(" [/INST] "),
               FieldAction("Response"), Text("</s>") >>
      [] s = SrcMessages ->
            << FieldAction("System"),
               Branch("Range", Pipe(<< <<Field(<<"Messages">>)>> >>),
                      List(<<FieldAction("Role"), Text(": "), FieldAction("Content")>>),
                      NilList) >>
      [] s = SrcBoth ->
            << Branch("If", Pipe(<< <<Field(<<"Messages">>)>> >>),
                      List(<< Branch("Range", Pipe(<< <<Field(<<"Messages">>)>> >>),
                                     List(<<FieldAction("Content")>>), NilList) >>),
                      List(<<FieldAction("Prompt")>>)),
               FieldAction("Response") >>
      [] s = SrcLower -> <<FieldAction("Prompt"), FieldAction("response"), Text("<eot>")>>
      [] s = SrcDollar ->
            << Text("Q: "), FieldAction("Prompt"),
               Branch("With", Pipe(<< <<Field(<<"System">>)>> >>),
                      List(<<Action(Pipe(<< <<Variable(<<"$", "Response">>)>> >>))>>),
                      NilList),
               Text("<eot>") >>
      [] s = SrcDefine -> <<FieldAction("Prompt"), TemplateCall("r", Pipe(<< <<Dot>> >>))>>
      [] s = SrcChain ->
            << FieldAction("Prompt"),
               Action(Pipe(<< <<Field(<<"Response", "Text">>)>> >>)) >>
      [] OTHER -> <<>>

\* the templates a {{ define }} of the source adds to the main one
CompiledDefs(s) ==
    IF s = SrcDefine THEN << [Name |-> "r", Root |-> <<FieldAction("Response")>>] >>
    ELSE <<>>

----------------------------------------------------------------------------
(* Parse and Vars *)

RECURSIVE IdentifiersOfDefs(_)
IdentifiersOfDefs(defs) ==
    IF defs = <<>> THEN <<>>
    ELSE IdentifiersOfNodes(Head(defs).Root) \o IdentifiersOfDefs(Tail(defs))

\* Template.Vars over t.Templates(): the lower-cased identifiers, as a set
\* (the code returns them sorted and without duplicates)
VarsOf(root, defs) ==
    LET ids == IdentifiersOfNodes(root) \o IdentifiersOfDefs(defs)
    IN  {ToLower(ids[i]) : i \in 1..Len(ids)}

NeedsResponseOnly(vs) == "response" \notin vs

\* the test of Parse: neither "messages" nor "response" among the variables
NeedsResponse(vs) == "messages" \notin vs /\ "response" \notin vs

\* the root of the Template that Parse(s) returns
ParsedRoot(s) ==
    IF NeedsResponse(VarsOf(CompiledRoot(s), CompiledDefs(s)))
    THEN Append(CompiledRoot(s), response)
    ELSE CompiledRoot(s)

\* t.Vars() of the Template as it is now
Vars == VarsOf(heap[0], tDefs)

----------------------------------------------------------------------------
(* Executing a tree (text/template's exec), for the nodes that occur *)

\* a value with the kind of Go value it stands for: "map" (map[string]any),
\* "struct" (an api.Message), "text" (a string, as tokens), "str" (a string
\* held as one token), "msgs" ([]*api.Message), "list" (another slice) or
\* "nil" (the nil interface a missing map key yields)
Val(kind, v) == [kind |-> kind, v |-> v]

Nil == Val("nil", <<>>)

\* the kind of the value a key or field of that name holds
KindOfField(name) ==
    CASE name \in {"System", "Prompt", "Response", "Content"} -> "text"
      [] name = "Role" -> "str"
      [] name = "Messages" -> "msgs"
      [] OTHER -> "list"

RECURSIVE EvalChain(_, _)
\* a field chain .A.B: a key a map lacks is the nil interface, with
\* missingkey=zero as with the default; a field of anything that is neither
\* map nor struct is an error
EvalChain(recv, ident) ==
    IF ident = <<>> THEN [err |-> FALSE, val |-> recv]
    ELSE LET name == Head(ident)
         IN  CASE recv.kind = "map" ->
                     IF name \in DOMAIN recv.v
                     THEN EvalChain(Val(KindOfField(name), recv.v[name]), Tail(ident))
                     ELSE EvalChain(Nil, Tail(ident))
               [] recv.kind = "struct" ->
                     IF name \in DOMAIN recv.v
                     THEN EvalChain(Val(KindOfField(name), recv.v[name]), Tail(ident))
                     ELSE [err |-> TRUE, val |-> Nil]
               [] OTHER -> [err |-> TRUE, val |-> Nil]

\* the one command of a pipeline: a field, $ and its fields, dot, or a call
\* of a function, which is an error in a template that was given no funcs
EvalPipe(pipe, dot, env) ==
    LET arg == pipe.Cmds[1][1]
    IN  CASE arg.type = "Field" -> EvalChain(dot, arg.Ident)
          [] arg.type = "Variable" ->
                IF arg.Ident[1] = "$" THEN EvalChain(env.root, Tail(arg.Ident))
                ELSE [err |-> TRUE, val |-> Nil]
          [] arg.type = "Dot" -> [err |-> FALSE, val |-> dot]
          [] arg.type = "Identifier" ->
                IF env.funcs THEN [err |-> FALSE, val |-> Val("str", arg.Ident)]
                ELSE [err |-> TRUE, val |-> Nil]
          [] OTHER -> [err |-> TRUE, val |-> Nil]

\* what printing a value writes
Show(val) ==
    CASE val.kind = "text" -> val.v
      [] val.kind = "str" -> <<val.v>>
      [] val.kind = "nil" -> <<"<no value>">>
      [] val.kind = "list" -> <<"[">> \o val.v \o <<"]">>
      [] OTHER -> <<"[...]">>

\* text/template's truth of a value
Truth(val) ==
    CASE val.kind = "nil" -> FALSE
      [] val.kind = "str" -> val.v # ""
      [] val.kind = "struct" -> TRUE
      [] val.kind = "map" -> DOMAIN val.v # {}
      [] OTHER -> Len(val.v) > 0

RECURSIVE ExecNodes(_, _, _)
RECURSIVE ExecNode(_, _, _)
RECURSIVE ExecRange(_, _, _, _)

\* a *ListNode, which may be nil
ExecList(l, dot, env) ==
    IF l = NilList THEN [err |-> FALSE, out |-> <<>>] ELSE ExecNodes(l.Nodes, dot, env)

\* the nodes in order; what was written before an error stays written
ExecNodes(nodes, dot, env) ==
    IF nodes = <<>> THEN [err |-> FALSE, out |-> <<>>]
    ELSE LET h == ExecNode(Head(nodes), dot, env)
         IN  IF h.err THEN h
             ELSE LET t == ExecNodes(Tail(nodes), dot, env)
                  IN  [err |-> t.err, out |-> h.out \o t.out]

\* {{ range }} over the elements, dot set to each
ExecRange(nodes, elems, kind, env) ==
    IF elems = <<>> THEN [err |-> FALSE, out |-> <<>>]
    ELSE LET h == ExecNodes(nodes, Val(kind, Head(elems)), env)
         IN  IF h.err THEN h
             ELSE LET t == ExecRange(nodes, Tail(elems), kind, env)
                  IN  [err |-> t.err, out |-> h.out \o t.out]

ExecNode(n, dot, env) ==
    CASE n.type = "Text" -> [err |-> FALSE, out |-> <<n.Text>>]
      [] n.type = "Action" ->
            LET r == EvalPipe(n.Pipe, dot, env)
            IN  IF r.err THEN [err |-> TRUE, out |-> <<>>]
                ELSE [err |-> FALSE, out |-> Show(r.val)]
      [] n.type \in {"If", "With"} ->
            LET r == EvalPipe(n.Pipe, dot, env)
            IN  IF r.err THEN [err |-> TRUE, out |-> <<>>]
                ELSE IF Truth(r.val)
                     THEN ExecList(n.List, IF n.type = "With" THEN r.val ELSE dot, env)
                     ELSE ExecList(n.ElseList, dot, env)
      [] n.type = "Range" ->
            LET r == EvalPipe(n.Pipe, dot, env)
            IN  IF r.err THEN [err |-> TRUE, out |-> <<>>]
                ELSE IF r.val.kind \in {"msgs", "list"} /\ Len(r.val.v) > 0
                     THEN ExecRange(n.List.Nodes, r.val.v,
                                    IF r.val.kind = "msgs" THEN "struct" ELSE "str", env)
                     ELSE IF r.val.kind \in {"msgs", "list", "nil"}
                          THEN ExecList(n.ElseList, dot, env)
                          ELSE [err |-> TRUE, out |-> <<>>]
      [] n.type = "Template" ->
            LET r  == EvalPipe(n.Pipe, dot, env)
                at == {i \in 1..Len(env.defs) : env.defs[i].Name = n.Name}
            IN  IF r.err \/ at = {} THEN [err |-> TRUE, out |-> <<>>]
                ELSE ExecNodes(env.defs[CHOOSE i \in at : TRUE].Root, r.val,
                               [env EXCEPT !.root = r.val])
      [] OTHER -> [err |-> TRUE, out |-> <<>>]

\* (*template.Template).Execute(w, data) of the tree with root nodes; defs are
\* the templates associated with it, funcs whether it was given the funcs
ExecTree(nodes, data, defs, funcs) ==
    ExecNodes(nodes, Val("map", data),
              [root |-> Val("map", data), defs |-> defs, funcs |-> funcs])

----------------------------------------------------------------------------
(* Inputs of collate *)

Roles == {"system", "user", "assistant", "tool"}

Msg(role, content, images) == [Role |-> role, Content |-> content, Images |-> images]

CollateContents ==
    { <<>>, <<"a">>, <<"a", " ">>, <<"x", Placeholder, "y">>, <<Placeholder, Placeholder>> }

ImageLists == { <<>>, <<"png">>, <<"png", "jpg">> }

CollateMsgs ==
    {Msg("user", c, im) : c \in CollateContents, im \in ImageLists}
    \cup {Msg("assistant", c, im) : c \in {<<>>, <<"r">>}, im \in {<<>>, <<"png">>}}
    \cup {Msg("tool", <<"t">>, <<>>)}
    \cup {Msg("system", c, <<>>) : c \in {<<>>, <<"A">>, <<"B">>}}
    \cup {Msg("system", <<"A">>, <<"png">>)}

RECURSIVE SeqsUpTo(_, _)
SeqsUpTo(S, k) ==
    IF k = 0 THEN {<<>>}
    ELSE LET shorter == SeqsUpTo(S, k - 1)
         IN  shorter \cup {Append(s, e) : s \in {t \in shorter : Len(t) = k - 1}, e \in S}

\* the message lists of length up to k
CollateInputs(k) == SeqsUpTo(CollateMsgs, k)

----------------------------------------------------------------------------
(* The collate harness *)

CollateIdle ==
    /\ cpc = "idle"
    /\ cIn = <<>>
    /\ cOut = CollateInit

CollateCall ==
    /\ cpc = "idle"
    /\ \E msgs \in CollateInputs(MaxCollateMsgs) :
          /\ cIn' = msgs
          /\ cOut' = Collate(msgs)
    /\ cpc' = "returned"
    /\ UNCHANGED <<execVars, namedVars, stageVars>>

----------------------------------------------------------------------------
(* Template.Execute *)

Calls == 1..NumCalls

\* no tree: the value of a call's tree before Copy()
NoTree == 0 - 1

\* one execution of a tree (text/template's Execute): the nodes and the data
Block(nodes, data) == [Nodes |-> nodes, Data |-> data]

ModernDataRawMessages(system, collated, msgs, tools) ==
    [System |-> system, Messages |-> msgs, Tools |-> tools]

\* the data of the single execution of a template that uses .Messages
ModernData(system, collated, msgs, tools) ==
    [System |-> system, Messages |-> collated, Tools |-> tools]

TurnDataPromptAsSystem(prompt, resp) ==
    [System |-> prompt, Prompt |-> prompt, Response |-> resp]

\* the data of the execution of one whole turn
TurnData(prompt, resp) == [System |-> <<>>, Prompt |-> prompt, Response |-> resp]

FinalDataNoSystem(system, prompt) == [System |-> <<>>, Prompt |-> prompt]

\* the data of the last execution, of the cut tree
FinalData(system, prompt) == [System |-> system, Prompt |-> prompt]

IsModernOrResponse(vs) == "messages" \in vs \/ "response" \in vs

\* slices.Contains(t.Vars(), "messages")
IsModern(vs) == "messages" \in vs

TurnCompleteEither(i, n, prompt, resp) == i # n /\ (prompt # <<>> \/ resp # <<>>)

\* i != len(collated)-1 && prompt != "" && response != "", i counted from 1
TurnComplete(i, n, prompt, resp) == i # n /\ prompt # <<>> /\ resp # <<>>

\* the callback of slices.DeleteFunc: n mentions "Response"
MentionsResponse(n) == SliceContains(Identifiers(n), "Response")

DeleteNothing(nodes, cut) == nodes

RECURSIVE DeleteFromCut(_, _)
\* slices.DeleteFunc with the sticky flag cut: a node is deleted once a node
\* that mentions "Response" has been seen
DeleteFromCut(nodes, cut) ==
    IF nodes = <<>> THEN <<>>
    ELSE LET c == cut \/ MentionsResponse(Head(nodes))
         IN  (IF c THEN <<>> ELSE <<Head(nodes)>>) \o DeleteFromCut(Tail(nodes), c)

CopyTargetShared(c) == 0

\* the tree that tree := t.Template.Copy() names: a fresh one of the call's own
CopyTarget(c) == c

\* the []api.Tool a caller may pass
ToolLists == { <<>>, <<"get_current_weather">> }

\* t.Template.Execute: the Template's tree with its associated templates and funcs
ExecOwn(blk) == ExecTree(blk.Nodes, blk.Data, tDefs, TRUE)

\* template.New("").AddParseTree("", tree) executed: the tree alone
ExecBare(blk) == ExecTree(blk.Nodes, blk.Data, <<>>, FALSE)

\* a call's locals.  b and w hold the executions made into the buffer and
\* into the writer, buf and sink the text these wrote there; err is the
\* error returned
IdleCall ==
    [pc |-> "idle", msgs |-> <<>>, tools |-> <<>>, system |-> <<>>, collated |-> <<>>,
     i |-> 0, prompt |-> <<>>, resp |-> <<>>, b |-> <<>>, tree |-> NoTree, w |-> <<>>,
     buf |-> <<>>, sink |-> <<>>, err |-> FALSE]

RawOfTree(s) == IF NeedsResponse(VarsOf(CompiledRoot(s), CompiledDefs(s)))
                THEN s \o "{{.Response}}"
                ELSE s

\* raw: s
RawOf(s) == s

\* Template.String
String == tRaw

\* Parse(s): the compiler's error, or the Template with its touched-up tree
Parse(s) ==
    /\ tState = "none"
    /\ tSrc' = s
    /\ tRaw' = RawOf(s)
    /\ IF SyntaxError(s)
       THEN /\ tState' = "error"
            /\ UNCHANGED <<tDefs, heap>>
       ELSE /\ tState' = "parsed"
            /\ tDefs' = CompiledDefs(s)
            /\ heap' = [heap EXCEPT ![0] = ParsedRoot(s)]
    /\ UNCHANGED calls

\* Execute up to the choice of path: collate, and for a template that uses
\* .Messages the one execution, written straight to w.  v.Tools is read on
\* that path only: the call keeps them there, and nowhere else.
ExecuteBegin(c, msgs, tools) ==
    /\ LET col == Collate(msgs)
           in  == [calls[c] EXCEPT !.msgs = msgs,
                                   !.system = col.system, !.collated = col.collated]
           blk == Block(heap[0], ModernData(col.system, col.collated, msgs, tools))
           r   == ExecOwn(blk)
       IN  IF IsModern(Vars)
           THEN calls' = [calls EXCEPT ![c] =
                    [in EXCEPT !.pc = "done", !.tools = tools, !.w = <<blk>>,
                               !.sink = r.out, !.err = r.err]]
           ELSE calls' = [calls EXCEPT ![c] = [in EXCEPT !.pc = "loop", !.i = 1]]
    /\ UNCHANGED <<tmplVars, heap>>

\* a call of t.Execute(w, Values{msgs, tools}) with msgs drawn from inputs
ExecuteStart(c, inputs) ==
    /\ tState = "parsed"
    /\ calls[c].pc = "idle"
    /\ \E msgs \in inputs, tools \in ToolLists : ExecuteBegin(c, msgs, tools)

\* a return that hands the sink the bytes rendered before the failure
OnErrorFlush(cl) == [cl EXCEPT !.err = TRUE, !.pc = "done", !.sink = cl.buf]

\* return err: the call ends with the error, b is dropped and w is not
\* written
OnError(cl) == [cl EXCEPT !.err = TRUE, !.pc = "done"]

\* one pass of the loop over collated
LoopStep(c) ==
    /\ calls[c].pc = "loop"
    /\ calls[c].i <= Len(calls[c].collated)
    /\ LET cl     == calls[c]
           m      == cl.collated[cl.i]
           prompt == IF m.Role = "user" THEN m.Content ELSE cl.prompt
           resp   == IF m.Role = "user" THEN cl.resp ELSE m.Content
           blk    == Block(heap[0], TurnData(prompt, resp))
           r      == ExecOwn(blk)
       IN  IF TurnComplete(cl.i, Len(cl.collated), prompt, resp)
           THEN IF r.err
                THEN calls' = [calls EXCEPT ![c] =
                         OnError([cl EXCEPT !.b = Append(cl.b, blk),
                                            !.buf = cl.buf \o r.out,
                                            !.prompt = prompt, !.resp = resp])]
                ELSE calls' = [calls EXCEPT ![c] =
                         [cl EXCEPT !.b = Append(cl.b, blk),
                                    !.buf = cl.buf \o r.out,
                                    !.prompt = <<>>, !.resp = <<>>, !.i = cl.i + 1]]
           ELSE calls' = [calls EXCEPT ![c] =
                    [cl EXCEPT !.prompt = prompt, !.resp = resp, !.i = cl.i + 1]]
    /\ UNCHANGED <<tmplVars, heap>>

\* tree := t.Template.Copy()
CopyTree(c) ==
    /\ calls[c].pc = "loop"
    /\ calls[c].i > Len(calls[c].collated)
    /\ heap' = [heap EXCEPT ![CopyTarget(c)] = heap[0]]
    /\ calls' = [calls EXCEPT ![c].tree = CopyTarget(c), ![c].pc = "cut"]
    /\ UNCHANGED tmplVars

\* tree.Root.Nodes = slices.DeleteFunc(tree.Root.Nodes, ...)
CutTree(c) ==
    /\ calls[c].pc = "cut"
    /\ heap' = [heap EXCEPT ![calls[c].tree] = DeleteFromCut(heap[calls[c].tree], FALSE)]
    /\ calls' = [calls EXCEPT ![c].pc = "final"]
    /\ UNCHANGED tmplVars

\* the execution of the cut tree, into b; its error is returned
FinalRender(c) ==
    /\ calls[c].pc = "final"
    /\ LET blk == Block(heap[calls[c].tree], FinalData(calls[c].system, calls[c].prompt))
           r   == ExecBare(blk)
           cl  == [calls[c] EXCEPT !.b = Append(@, blk), !.buf = @ \o r.out]
       IN  calls' = [calls EXCEPT ![c] =
                        IF r.err THEN OnError(cl) ELSE [cl EXCEPT !.pc = "copy"]]
    /\ UNCHANGED <<tmplVars, heap>>

\* io.Copy(w, &b) and the return
WriteOut(c) ==
    /\ calls[c].pc = "copy"
    /\ calls' = [calls EXCEPT ![c].w = calls[c].b, ![c].sink = calls[c].buf,
                                ![c].pc = "done"]
    /\ UNCHANGED <<tmplVars, heap>>

\* the caller is done with the call's output; the call's own tree is garbage
Forget(c) ==
    /\ calls[c].pc = "done"
    /\ calls' = [calls EXCEPT ![c] = IdleCall]
    /\ heap' = [heap EXCEPT ![c] = <<>>]
    /\ UNCHANGED tmplVars

----------------------------------------------------------------------------
(* Inputs of Execute *)

\* the i-th message of a conversation: its content, when not empty, names i
ExecMsgsAt(i) ==
    {Msg(r, c, <<>>) : r \in {"user", "assistant"}, c \in {<<>>, <<"m" \o ToString(i)>>}}
    \cup {Msg(r, <<"m" \o ToString(i)>>, <<>>) : r \in {"system", "tool"}}

RECURSIVE Conversations(_)
\* the message lists of length up to k
Conversations(k) ==
    IF k = 0 THEN {<<>>}
    ELSE LET shorter == Conversations(k - 1)
         IN  shorter \cup {Append(s, m) : s \in {t \in shorter : Len(t) = k - 1},
                                          m \in ExecMsgsAt(k)}

Say(role, i) == Msg(role, <<"m" \o ToString(i)>>, <<>>)

\* three turns, and the same with the first answer empty
LongConversations ==
    { <<Say("user", 1), Say("assistant", 2), Say("user", 3), Say("assistant", 4), Say("user", 5)>>,
      <<Say("user", 1), Msg("assistant", <<>>, <<>>), Say("user", 3), Say("assistant", 4),
        Say("user", 5)>> }

ExecInputs == Conversations(MaxMsgs) \cup LongConversations

\* the conversations of the calls that run at once
SharedInputs ==
    { <<>>,
      <<Say("user", 1), Say("assistant", 2), Say("user", 3)>>,
      <<Say("system", 1), Say("user", 2), Say("tool", 3), Say("user", 4), Say("assistant", 5)>> }

----------------------------------------------------------------------------
(* The template catalog: templatesOnce and Named *)

\* the score a template must stay below to match
Threshold == 100

\* math.MaxInt, the score before any template is seen (that of a 32-bit int)
MaxInt == 2147483647

Min2(x, y) == IF x <= y THEN x ELSE y

RECURSIVE PrefixMin(_)
\* the least of s[1..j], for every j
PrefixMin(s) ==
    IF Len(s) <= 1 THEN s
    ELSE LET h  == Len(s) \div 2
             lo == PrefixMin(SubSeq(s, 1, h))
             hi == PrefixMin(SubSeq(s, h + 1, Len(s)))
         IN  lo \o SubSeq([j \in 1..Len(hi) |-> Min2(lo[h], hi[j])], 1, Len(hi))

\* the i-th row of the edit-distance table, for the rune ai, from the row
\* above it; entry k is column k - 1.  An entry is the least of the one above
\* plus 1, the diagonal one plus the cost of ai against b's rune, and the one
\* to its left plus 1; the last is unrolled into a least prefix value.
DistanceRow(prev, ai, b, i) ==
    LET n    == Len(b) + 1
        base == SubSeq([k \in 1..n |->
                          IF k = 1 THEN i
                          ELSE Min2(prev[k] + 1,
                                    prev[k - 1] + (IF b[k - 1] = ai THEN 0 ELSE 1))
                               - (k - 1)], 1, n)
        pm   == PrefixMin(base)
    IN  SubSeq([j \in 1..n |-> pm[j] + (j - 1)], 1, n)

RECURSIVE DistanceRows(_, _, _, _)
DistanceRows(a, b, i, prev) ==
    IF i > Len(a) THEN prev[Len(b) + 1]
    ELSE DistanceRows(a, b, i + 1, DistanceRow(prev, a[i], b, i))

\* the table filled row by row over the runes of a
Distance(a, b) ==
    DistanceRows(a, b, 1, SubSeq([j \in 1..(Len(b) + 1) |-> j - 1], 1, Len(b) + 1))

\* levenshtein.ComputeDistance(a, b): the edit distance of two rune
\* sequences, the rows taken over the shorter one
ComputeDistance(a, b) == IF Len(a) > Len(b) THEN Distance(b, a) ELSE Distance(a, b)

\* bytes.ReplaceAll(bts, "\r\n", "\n")
NormalizeLineEndings(bts) == [i \in 1..Len(bts) |-> IF bts[i] = "\r\n" THEN "\n" ELSE bts[i]]

HasFile(emb, name) == \E i \in 1..Len(emb.files) : emb.files[i].Name = name

\* templatesFS.ReadFile(name + ".gotmpl")
ReadFile(emb, name) ==
    emb.files[CHOOSE i \in 1..Len(emb.files) : emb.files[i].Name = name].Bytes

NoTemplates == [templates |-> <<>>, err |-> ""]

\* the function given to sync.OnceValues: the catalog, or the first error
LoadTemplates(emb) ==
    IF ~emb.indexOK
    THEN [templates |-> <<>>, err |-> "invalid index.json"]
    ELSE IF \E i \in 1..Len(emb.index) : ~HasFile(emb, emb.index[i].Name)
    THEN [templates |-> <<>>, err |-> "file does not exist"]
    ELSE [templates |->
              [i \in 1..Len(emb.index) |->
                  [Name |-> emb.index[i].Name, Template |-> emb.index[i].Template,
                   Bytes |-> NormalizeLineEndings(ReadFile(emb, emb.index[i].Name))]],
          err |-> ""]

BetterOrEqual(s, score) == s <= score

\* s < score: a later template wins only with a strictly smaller distance
Better(s, score) == s < score

RECURSIVE NamedScan(_, _, _, _, _)
\* the loop of Named: the best score and the index of its template (0: nil)
NamedScan(s, templates, i, score, template) ==
    IF i > Len(templates) THEN [score |-> score, template |-> template]
    ELSE LET d == ComputeDistance(s, templates[i].Template)
         IN  IF Better(d, score)
             THEN NamedScan(s, templates, i + 1, d, i)
             ELSE NamedScan(s, templates, i + 1, score, template)

\* what Named(s) returns on the value templatesOnce() gave it
NamedResult(s, got) ==
    IF got.err # ""
    THEN [template |-> 0, err |-> got.err]
    ELSE LET best == NamedScan(s, got.templates, 1, MaxInt, 0)
         IN  IF best.score < Threshold
             THEN [template |-> best.template, err |-> ""]
             ELSE [template |-> 0, err |-> "no matching template found"]

Callers == 1..NumCallers

IdleCaller == [pc |-> "idle", s |-> <<>>, got |-> NoTemplates, ret |-> [template |-> 0, err |-> ""]]

\* Named(s) is called
NamedCall(p, s) ==
    /\ ncalls[p].pc = "idle"
    /\ ncalls' = [ncalls EXCEPT ![p].pc = "once", ![p].s = s]
    /\ UNCHANGED <<embedded, once, onceVal, loads>>

MayRunOnceUnlocked == once # "done"

\* sync.OnceValues lets the first caller alone run the function
MayRunOnce == once = "fresh"

\* templatesOnce(): the first caller starts the load
OnceRun(p) ==
    /\ ncalls[p].pc = "once"
    /\ MayRunOnce
    /\ once' = "running"
    /\ ncalls' = [ncalls EXCEPT ![p].pc = "loading"]
    /\ UNCHANGED <<embedded, onceVal, loads>>

\* the load function runs to its end and its two results are kept
OnceLoaded(p) ==
    /\ ncalls[p].pc = "loading"
    /\ onceVal' = LoadTemplates(embedded)
    /\ loads' = loads + 1
    /\ once' = "done"
    /\ ncalls' = [ncalls EXCEPT ![p].pc = "got", ![p].got = LoadTemplates(embedded)]
    /\ UNCHANGED embedded

\* templatesOnce() once the load is done: the kept results (a caller that
\* arrives while the load runs waits for it)
OnceGet(p) ==
    /\ ncalls[p].pc = "once"
    /\ once = "done"
    /\ ncalls' = [ncalls EXCEPT ![p].pc = "got", ![p].got = onceVal]
    /\ UNCHANGED <<embedded, once, onceVal, loads>>

\* the rest of Named: the error, or the scan and the threshold
NamedReturn(p) ==
    /\ ncalls[p].pc = "got"
    /\ ncalls' = [ncalls EXCEPT ![p].pc = "returned",
                                ![p].ret = NamedResult(ncalls[p].s, ncalls[p].got)]
    /\ UNCHANGED <<embedded, once, onceVal, loads>>

\* the caller goes on, and may call again
NamedForget(p) ==
    /\ ncalls[p].pc = "returned"
    /\ ncalls' = [ncalls EXCEPT ![p] = IdleCaller]
    /\ UNCHANGED <<embedded, once, onceVal, loads>>

----------------------------------------------------------------------------
(* Inputs of Named: the embedded catalog and the candidates *)

Repeat(ch, k) == [i \in 1..k |-> ch]

Entry(name, tmpl) == [Name |-> name, Template |-> tmpl]

File(name, bts) == [Name |-> name, Bytes |-> bts]

EntryAB == Entry("ab", <<"a", "b">>)

EntryBA == Entry("ba", <<"b", "a">>)

EntryB == Entry("b", <<"b">>)

AllFiles ==
    << File("ab", <<"{{ .Prompt }}", "\r\n">>), File("ba", <<"{{ .System }}", "\n">>),
       File("b", <<>>) >>

\* what may have been embedded in the binary: index.json and the *.gotmpl files
Embeddings ==
    { [indexOK |-> FALSE, index |-> <<>>, files |-> AllFiles],
      [indexOK |-> TRUE, index |-> <<>>, files |-> AllFiles],
      [indexOK |-> TRUE, index |-> <<EntryAB, EntryBA>>, files |-> <<AllFiles[1]>>],
      [indexOK |-> TRUE, index |-> <<EntryAB, EntryBA>>, files |-> AllFiles],
      [indexOK |-> TRUE, index |-> <<EntryBA, EntryAB, EntryB>>, files |-> AllFiles] }

\* candidates: near the entries, and one-letter runs about Threshold long
Candidates ==
    { <<>>, <<"a">>, <<"a", "b">>, <<"b", "b">> }
    \cup {Repeat("a", k) : k \in (Threshold - 1)..(Threshold + 2)}

OnceFresh ==
    /\ embedded \in Embeddings
    /\ once = "fresh"
    /\ onceVal = NoTemplates
    /\ loads = 0
    /\ ncalls = [p \in Callers |-> IdleCaller]

----------------------------------------------------------------------------
(* tempzipfs.Open: names and paths *)

\* 32<<20, the size from which an entry is staged
StageThreshold == 33554432

\* A name is the sequence of its slash-separated elements.

\* fs.ValidPath, which zip.Reader.Open requires of a name: no empty, "." or
\* ".." element (the name "." alone is the root)
ValidPath(name) ==
    /\ Len(name) > 0
    /\ \A i \in 1..Len(name) : name[i] \notin {"", ".", ".."}

\* names Windows reserves for devices
Reserved == {"NUL", "COM1"}

RECURSIVE Clean(_, _)
\* filepath.Clean of a relative path: done holds the cleaned elements so far
Clean(done, rest) ==
    IF rest = <<>> THEN done
    ELSE LET e == Head(rest)
         IN  IF e \in {"", "."} THEN Clean(done, Tail(rest))
             ELSE IF e = ".." /\ Len(done) > 0 /\ done[Len(done)] # ".."
                  THEN Clean(SubSeq(done, 1, Len(done) - 1), Tail(rest))
                  ELSE Clean(Append(done, e), Tail(rest))

\* a test of the name that lets every name through
IsLocalAny(name, os) == TRUE

\* filepath.IsLocal: not empty, and cleaned it does not start with ".."; on
\* Windows no element may be a reserved name
IsLocal(name, os) ==
    /\ Len(name) > 0
    /\ LET c == Clean(<<>>, name) IN c = <<>> \/ c[1] # ".."
    /\ os = "windows" => \A i \in 1..Len(name) : name[i] \notin Reserved

\* filepath.Join(z.p, name), as the path below z.p
Join(name) == Clean(<<>>, name)

\* the archives: each a set of entries, of sizes about the threshold
Archives ==
    { { [Name |-> <<"small">>, Size |-> 1],
        [Name |-> <<"big">>, Size |-> StageThreshold] },
      { [Name |-> <<"COM1">>, Size |-> StageThreshold - 1],
        [Name |-> <<"NUL">>, Size |-> StageThreshold] },
      { [Name |-> <<"dir", "big">>, Size |-> StageThreshold + 1] } }

\* the names Open is called with: those of the entries, a name that leaves
\* the root, and one that leaves a directory and stays local
OpenNames ==
    {e.Name : e \in UNION Archives} \cup { <<"..", "bad">>, <<"a", "..", "big">> }

HasEntry(name) == \E e \in archive : e.Name = name

EntryOfName(name) == CHOOSE e \in archive : e.Name = name

\* the paths below z.p at which a file may come to be
StagePaths == {Join(n) : n \in OpenNames}

NoFile == 0 - 1

----------------------------------------------------------------------------
(* tempzipfs.Open *)

Openers == 1..NumOpeners

NoResult == [kind |-> "none", path |-> <<>>, closed |-> FALSE, err |-> ""]

\* the archive's file r, returned after the deferred r.Close() has run
ArchiveFile(name) == [kind |-> "archive", path |-> name, closed |-> TRUE, err |-> ""]

\* the file os.Open(n) returned
StagedFile(path) == [kind |-> "staged", path |-> path, closed |-> FALSE, err |-> ""]

Failure(err) == [kind |-> "none", path |-> <<>>, closed |-> FALSE, err |-> err]

\* an Open call's locals: r is the state of the file z.r.Open returned
\* ("none" before it and when it failed), first tells that no call before it
\* got to the staging of its entry, found that os.Stat found the file, copied
\* that the call ran io.Copy
IdleOpen ==
    [pc |-> "idle", name |-> <<>>, r |-> "none", size |-> 0, first |-> FALSE,
     found |-> FALSE, copied |-> FALSE, ret |-> NoResult]

\* a return after z.r.Open succeeded: the deferred r.Close() runs
Return(call, ret) == [call EXCEPT !.pc = "returned", !.r = "closed", !.ret = ret]

\* os.Stat(n) finds a file
Exists(path) == files[path] # NoFile

\* the directory of path exists
HasParent(path) == Len(path) = 1 \/ SubSeq(path, 1, Len(path) - 1) \in dirs

\* Open up to the first access to the staging directory: z.r.Open(name),
\* r.Stat(), the size test, and then the test of the name
OpenBegin(p, name) ==
    /\ fcalls[p].pc = "idle"
    /\ LET in == [IdleOpen EXCEPT !.name = name]
           e  == EntryOfName(name)
       IN  /\ opened' = [opened EXCEPT ![name] =
                            @ \/ (/\ ValidPath(name) /\ HasEntry(name)
                                  /\ EntryOfName(name).Size >= StageThreshold
                                  /\ IsLocal(name, goos))]
           /\ fcalls' = [fcalls EXCEPT ![p] =
              IF ~ValidPath(name)
              THEN [in EXCEPT !.pc = "returned", !.ret = Failure("invalid argument")]
              ELSE IF ~HasEntry(name)
              THEN [in EXCEPT !.pc = "returned", !.ret = Failure("file does not exist")]
              ELSE IF e.Size < StageThreshold
              THEN Return([in EXCEPT !.size = e.Size], ArchiveFile(name))
              ELSE IF ~IsLocal(name, goos)
              THEN Return([in EXCEPT !.size = e.Size], Failure("zip: insecure file path"))
              ELSE [in EXCEPT !.pc = "stat", !.r = "open", !.size = e.Size,
                              !.first = ~opened[name]]]
    /\ UNCHANGED <<goos, archive, dirs, files, served>>

AfterStatAlwaysCreate(exists) == "create"

\* where Open goes on after os.Stat(n): it creates the file only when
\* Stat's error is os.ErrNotExist
AfterStat(exists) == IF exists THEN "open" ELSE "create"

\* os.Stat(n): the file is there, or is not, or Stat fails otherwise
StatStaged(p) ==
    /\ fcalls[p].pc = "stat"
    /\ \E fault \in BOOLEAN :
          fcalls' = [fcalls EXCEPT ![p] =
              IF fault
              THEN Return(@, Failure("stat failed"))
              ELSE [@ EXCEPT !.pc = AfterStat(Exists(Join(fcalls[p].name))),
                             !.found = Exists(Join(fcalls[p].name))]]
    /\ UNCHANGED <<goos, archive, dirs, files, opened, served>>

\* os.Create(n): a new, or emptied, file, unless it fails
CreateStaged(p) ==
    /\ fcalls[p].pc = "create"
    /\ \E fault \in BOOLEAN :
          IF fault \/ ~HasParent(Join(fcalls[p].name))
          THEN /\ fcalls' = [fcalls EXCEPT ![p] = Return(@, Failure("create failed"))]
               /\ UNCHANGED files
          ELSE /\ files' = [files EXCEPT ![Join(fcalls[p].name)] = 0]
               /\ fcalls' = [fcalls EXCEPT ![p].pc = "copy"]
    /\ UNCHANGED <<goos, archive, dirs, opened, served>>

\* io.Copy(w, r): all of the entry, or an error after some of it
CopyStaged(p) ==
    /\ fcalls[p].pc = "copy"
    /\ \E n \in {0, fcalls[p].size \div 2, fcalls[p].size} :
          /\ files' = [files EXCEPT ![Join(fcalls[p].name)] = n]
          /\ fcalls' = [fcalls EXCEPT ![p] =
                IF n < fcalls[p].size
                THEN Return([@ EXCEPT !.copied = TRUE], Failure("copy failed"))
                ELSE [@ EXCEPT !.copied = TRUE, !.pc = "open"]]
    /\ UNCHANGED <<goos, archive, dirs, opened, served>>

\* return os.Open(n)
OpenStaged(p) ==
    /\ fcalls[p].pc = "open"
    /\ \E fault \in BOOLEAN :
          IF fault
          THEN /\ fcalls' = [fcalls EXCEPT ![p] = Return(@, Failure("open failed"))]
               /\ UNCHANGED served
          ELSE /\ fcalls' = [fcalls EXCEPT ![p] =
                                     Return(@, StagedFile(Join(fcalls[p].name)))]
               /\ served' = [served EXCEPT ![fcalls[p].name] = TRUE]
    /\ UNCHANGED <<goos, archive, dirs, files, opened>>

\* the caller is done with what Open returned
OpenForget(p) ==
    /\ fcalls[p].pc = "returned"
    /\ fcalls' = [fcalls EXCEPT ![p] = IdleOpen]
    /\ UNCHANGED <<goos, archive, dirs, files, opened, served>>

\* an empty staging directory, with or without the directories of the names
StagingFresh ==
    /\ goos \in {"linux", "windows"}
    /\ archive \in Archives
    /\ dirs \in { {}, {<<"dir">>} }
    /\ files = [path \in StagePaths |-> NoFile]
    /\ fcalls = [p \in Openers |-> IdleOpen]
    /\ opened = [n \in OpenNames |-> FALSE]
    /\ served = [n \in OpenNames |-> FALSE]

\* the staging of a process in which Open is never called
NoStaging ==
    /\ goos = "linux"
    /\ archive = {}
    /\ dirs = {}
    /\ files = [path \in StagePaths |-> NoFile]
    /\ fcalls = [p \in Openers |-> IdleOpen]
    /\ opened = [n \in OpenNames |-> FALSE]
    /\ served = [n \in OpenNames |-> FALSE]

----------------------------------------------------------------------------
(* Specifications *)

TemplateUnparsed ==
    /\ tSrc = ""
    /\ tState = "none"
    /\ tRaw = ""
    /\ tDefs = <<>>
    /\ heap = [id \in 0..NumCalls |-> <<>>]
    /\ calls = [c \in Calls |-> IdleCall]

\* the catalog of a process in which Named is never called
NoCatalog ==
    /\ embedded = [indexOK |-> TRUE, index |-> <<>>, files |-> <<>>]
    /\ once = "fresh"
    /\ onceVal = NoTemplates
    /\ loads = 0
    /\ ncalls = [p \in Callers |-> IdleCaller]

InitCollate == CollateIdle /\ TemplateUnparsed /\ NoCatalog /\ NoStaging

NextCollate == CollateCall

\* collate applied to every input
SpecCollate == InitCollate /\ [][NextCollate]_vars

Init == CollateIdle /\ TemplateUnparsed /\ NoCatalog /\ NoStaging

\* one Template, parsed once and executed by one caller, call after call
Next ==
    \/ \E s \in Sources : Parse(s) /\ UNCHANGED <<collateVars, namedVars, stageVars>>
    \/ ExecuteStart(1, ExecInputs) /\ UNCHANGED <<collateVars, namedVars, stageVars>>
    \/ LoopStep(1) /\ UNCHANGED <<collateVars, namedVars, stageVars>>
    \/ CopyTree(1) /\ UNCHANGED <<collateVars, namedVars, stageVars>>
    \/ CutTree(1) /\ UNCHANGED <<collateVars, namedVars, stageVars>>
    \/ FinalRender(1) /\ UNCHANGED <<collateVars, namedVars, stageVars>>
    \/ WriteOut(1) /\ UNCHANGED <<collateVars, namedVars, stageVars>>
    \/ Forget(1) /\ UNCHANGED <<collateVars, namedVars, stageVars>>

Spec == Init /\ [][Next]_vars

\* one Template executed by several callers at once
NextShared ==
    \/ \E s \in Sources : Parse(s) /\ UNCHANGED <<collateVars, namedVars, stageVars>>
    \/ \E c \in Calls :
          \/ ExecuteStart(c, SharedInputs) /\ UNCHANGED <<collateVars, namedVars, stageVars>>
          \/ LoopStep(c) /\ UNCHANGED <<collateVars, namedVars, stageVars>>
          \/ CopyTree(c) /\ UNCHANGED <<collateVars, namedVars, stageVars>>
          \/ CutTree(c) /\ UNCHANGED <<collateVars, namedVars, stageVars>>
          \/ FinalRender(c) /\ UNCHANGED <<collateVars, namedVars, stageVars>>
          \/ WriteOut(c) /\ UNCHANGED <<collateVars, namedVars, stageVars>>
          \/ Forget(c) /\ UNCHANGED <<collateVars, namedVars, stageVars>>

SpecShared == Init /\ [][NextShared]_vars

InitNamed == CollateIdle /\ TemplateUnparsed /\ OnceFresh /\ NoStaging

\* goroutines calling Named, again and again
NextNamed ==
    \E p \in Callers :
        \/ \E s \in Candidates : NamedCall(p, s) /\ UNCHANGED <<collateVars, execVars, stageVars>>
        \/ OnceRun(p) /\ UNCHANGED <<collateVars, execVars, stageVars>>
        \/ OnceLoaded(p) /\ UNCHANGED <<collateVars, execVars, stageVars>>
        \/ OnceGet(p) /\ UNCHANGED <<collateVars, execVars, stageVars>>
        \/ NamedReturn(p) /\ UNCHANGED <<collateVars, execVars, stageVars>>
        \/ NamedForget(p) /\ UNCHANGED <<collateVars, execVars, stageVars>>

SpecNamed == InitNamed /\ [][NextNamed]_vars

InitStage == CollateIdle /\ TemplateUnparsed /\ NoCatalog /\ StagingFresh

\* goroutines calling Open on one tempzipfs, again and again
NextStage ==
    \E p \in Openers :
        \/ \E name \in OpenNames :
              OpenBegin(p, name) /\ UNCHANGED <<collateVars, execVars, namedVars>>
        \/ StatStaged(p) /\ UNCHANGED <<collateVars, execVars, namedVars>>
        \/ CreateStaged(p) /\ UNCHANGED <<collateVars, execVars, namedVars>>
        \/ CopyStaged(p) /\ UNCHANGED <<collateVars, execVars, namedVars>>
        \/ OpenStaged(p) /\ UNCHANGED <<collateVars, execVars, namedVars>>
        \/ OpenForget(p) /\ UNCHANGED <<collateVars, execVars, namedVars>>

SpecStage == InitStage /\ [][NextStage]_vars

----------------------------------------------------------------------------
(* Properties of collate *)

IsNonSystem(m) == m.Role # "system"

NonSystem(msgs) == SelectSeq(msgs, IsNonSystem)

IsSystemMsg(m) == m.Role = "system"

SystemMsgs(msgs) == SelectSeq(msgs, IsSystemMsg)

RECURSIVE ImagesBefore(_, _)
\* the images attached to ms[1..i-1]
ImagesBefore(ms, i) ==
    IF i <= 1 THEN 0 ELSE ImagesBefore(ms, i - 1) + Len(ms[i - 1].Images)

\* the content of ms[i] once its images are tagged
TaggedContent(ms, i) == TagImages(ms[i].Content, ms[i].Images, ImagesBefore(ms, i)).Content

\* the indices at which a maximal run of equal roles starts, in order
RunStarts(ms) ==
    SelectSeq([i \in 1..Len(ms) |-> i],
              LAMBDA i : i = 1 \/ ms[i].Role # ms[i - 1].Role)

RunEnd(ms, starts, k) == IF k = Len(starts) THEN Len(ms) ELSE starts[k + 1] - 1

RECURSIVE JoinTagged(_, _, _)
\* the tagged contents of ms[lo..hi] joined by "\n\n"
JoinTagged(ms, lo, hi) ==
    IF lo = hi THEN TaggedContent(ms, lo)
    ELSE JoinTagged(ms, lo, hi - 1) \o <<NL2>> \o TaggedContent(ms, hi)

\* the collated entry that holds ms[i]
EntryOf(ms, i) == Cardinality({k \in 1..Len(RunStarts(ms)) : RunStarts(ms)[k] <= i})

Count(s, tok) == Cardinality({i \in 1..Len(s) : s[i] = tok})

IsImageTag(tok) == \E k \in 0..(2 * (MaxCollateMsgs + 1)) : tok = ImageTag(k)

\* C4: the collated list holds one entry per maximal run of same-role
\* non-system messages, in order: adjacent entries differ in role and an
\* entry's content is the run's (tagged) contents joined by two newlines.
C4_MergeRuns ==
    cpc = "returned" =>
        LET ms     == NonSystem(cIn)
            col    == cOut.collated
            starts == RunStarts(ms)
        IN  /\ Len(col) = Len(starts)
            /\ \A k \in 1..Len(col) :
                  /\ col[k].Role = ms[starts[k]].Role
                  /\ col[k].Content = JoinTagged(ms, starts[k], RunEnd(ms, starts, k))
            /\ \A k \in 1..(Len(col) - 1) : col[k].Role # col[k + 1].Role

\* a system message between two user messages does not keep them apart
C4_Witness ==
    /\ cpc = "returned"
    /\ Len(cIn) = 3
    /\ cIn[1] = Msg("user", <<"a">>, <<>>)
    /\ cIn[2].Role = "system"
    /\ cIn[3] = Msg("user", <<"x", Placeholder, "y">>, <<>>)
    /\ Len(cOut.collated) = 1
    /\ cOut.collated[1].Content = <<"a", NL2, "x", Placeholder, "y">>

RECURSIVE JoinContents(_)
JoinContents(ms) ==
    IF Len(ms) = 0 THEN <<>>
    ELSE IF Len(ms) = 1 THEN ms[1].Content
    ELSE JoinContents(SubSeq(ms, 1, Len(ms) - 1)) \o <<NL2>> \o ms[Len(ms)].Content

\* C5 as claimed: no collated entry is a system message, and the system text
\* is the system contents in order with a blank line between every two
\* successive ones, whatever their content.
C5_SystemJoined ==
    cpc = "returned" =>
        /\ \A k \in 1..Len(cOut.collated) : cOut.collated[k].Role # "system"
        /\ cOut.system = JoinContents(SystemMsgs(cIn))

\* C6: the k-th image of the non-system messages gets [img-k]: the counter
\* ends at the number of images, and every image's tag occurs exactly once,
\* in the collated entry that holds the image's message, and nowhere else.
C6_ImageNumbering ==
    cpc = "returned" =>
        LET ms  == NonSystem(cIn)
            col == cOut.collated
            all == ImagesBefore(ms, Len(ms) + 1)
        IN  /\ cOut.n = all
            /\ \A i \in 1..Len(ms) : \A j \in 1..Len(ms[i].Images) :
                  LET tag == ImageTag(ImagesBefore(ms, i) + j - 1)
                  IN  \A e \in 1..Len(col) :
                         Count(col[e].Content, tag) = IF e = EntryOf(ms, i) THEN 1 ELSE 0
            /\ \A e \in 1..Len(col) : \A p \in 1..Len(col[e].Content) :
                  IsImageTag(col[e].Content[p]) =>
                      \E k \in 0..(all - 1) : col[e].Content[p] = ImageTag(k)

\* two messages with images, the second merged into the first: the counter runs on
C6_Witness ==
    /\ cpc = "returned"
    /\ Len(cIn) = 3
    /\ cIn[1].Role = "user" /\ Len(cIn[1].Images) = 2
    /\ cIn[2].Role = "system"
    /\ cIn[3].Role = "user" /\ Len(cIn[3].Images) = 1
    /\ cOut.n = 3
    /\ Len(cOut.collated) = 1
    /\ Count(cOut.collated[1].Content, ImageTag(2)) = 1

\* a message of two images without placeholder first, then a message of
\* another role with one image
TwoThenOne ==
    /\ cpc = "returned"
    /\ Len(cIn) >= 2
    /\ cIn[1].Role # "system" /\ cIn[2].Role # "system"
    /\ cIn[1].Role # cIn[2].Role
    /\ Len(cIn[1].Images) = 2 /\ ~Contains(cIn[1].Content, Placeholder)
    /\ Len(cIn[2].Images) = 1

\* ms[i] is a run of its own, so that its collated entry holds it alone
AloneInEntry(ms, i) ==
    /\ (i = 1 \/ ms[i - 1].Role # ms[i].Role)
    /\ (i = Len(ms) \/ ms[i + 1].Role # ms[i].Role)

\* the marker takes the place of the first placeholder, or goes in front
MarkerPlaced(content, tag, result) ==
    IF Contains(content, Placeholder)
    THEN \E p \in 1..Len(content) :
            /\ content[p] = Placeholder
            /\ \A q \in 1..(p - 1) : content[q] # Placeholder
            /\ result = [content EXCEPT ![p] = tag]
    ELSE /\ result[1] = tag
         /\ result = TrimSpace(<<tag, " ">> \o content)

OneImageRule ==
    cpc = "returned" =>
        LET ms == NonSystem(cIn)
        IN  \A i \in 1..Len(ms) :
               (AloneInEntry(ms, i) /\ Len(ms[i].Images) = 1) =>
                   MarkerPlaced(ms[i].Content, ImageTag(ImagesBefore(ms, i)),
                                cOut.collated[EntryOf(ms, i)].Content)

\* C7 as claimed: two images without placeholder give a content prefixed
\* with [img-0], a second message with one image gets [img-1]; the first
\* marker replaces the first placeholder or else is prepended.
C7_AsClaimed ==
    /\ TwoThenOne =>
          /\ cOut.collated[1].Content[1] = ImageTag(0)
          /\ Contains(cOut.collated[2].Content, ImageTag(1))
    /\ OneImageRule

\* C7 amended: two images without placeholder give a content that starts
\* "[img-1] [img-0]", and the one image of the next message gets [img-2];
\* a message's single marker replaces its first placeholder, or else is put
\* in front of the content, a space after it, trailing white space trimmed.
C7_MarkerPlacement ==
    /\ TwoThenOne =>
          /\ SubSeq(cOut.collated[1].Content, 1, 3) = <<ImageTag(1), " ", ImageTag(0)>>
          /\ Contains(cOut.collated[2].Content, ImageTag(2))
          /\ ~Contains(cOut.collated[2].Content, ImageTag(1))
    /\ OneImageRule

C7_Witness ==
    /\ TwoThenOne
    /\ cIn[1].Content = <<"a", " ">>
    /\ cOut.collated[1].Content = <<ImageTag(1), " ", ImageTag(0), " ", "a">>
    /\ cIn[2].Content = <<>>
    /\ cOut.collated[2].Content = <<ImageTag(2)>>

----------------------------------------------------------------------------
(* Properties of Execute *)

\* the variables the source itself references, before Parse touches the tree up
SourceVars == VarsOf(CompiledRoot(tRaw), CompiledDefs(tRaw))

\* the call went, or is going, through the turn-by-turn conversion
TookLegacy(c) ==
    \/ calls[c].pc \in {"loop", "cut", "final", "copy"}
    \/ calls[c].pc = "done" /\ (calls[c].tree # NoTree \/ calls[c].b # <<>>)

\* the call was the one execution of the whole template
TookModern(c) ==
    /\ calls[c].pc = "done"
    /\ calls[c].tree = NoTree
    /\ calls[c].b = <<>>
    /\ Len(calls[c].w) = 1

\* u1, a1, ..., u(n-1), a(n-1), un
Alternating(ms) ==
    /\ Len(ms) % 2 = 1
    /\ \A i \in 1..Len(ms) : ms[i].Role = IF i % 2 = 1 THEN "user" ELSE "assistant"

C1Case(c) ==
    /\ tState = "parsed"
    /\ NeedsResponse(SourceVars)
    /\ calls[c].pc = "done"
    /\ Alternating(NonSystem(calls[c].msgs))

\* n-1 executions of the whole template, then one of the source's own nodes
\* (all that comes before the appended Response slot)
C1Expected(c) ==
    LET ms == NonSystem(calls[c].msgs)
        n  == (Len(ms) + 1) \div 2
    IN  [i \in 1..(n - 1) |->
            Block(Append(CompiledRoot(tRaw), response),
                  [System |-> <<>>, Prompt |-> ms[2 * i - 1].Content,
                   Response |-> ms[2 * i].Content])]
        \o << Block(CompiledRoot(tRaw),
                    [System |-> calls[c].system, Prompt |-> ms[Len(ms)].Content]) >>

\* C1 as claimed: for a source that references neither "messages" nor
\* "response" and any conversation u1,a1,...,un the output is the n-1 whole
\* turns (ui, ai) in order and then the cut template with Prompt = un.
C1_AsClaimed == \A c \in Calls : C1Case(c) => calls[c].w = C1Expected(c)

\* C1 amended: the same, for conversations whose contents are all non-empty.
C1_LegacyTurns ==
    \A c \in Calls :
        (C1Case(c) /\ \A i \in 1..Len(calls[c].msgs) : calls[c].msgs[i].Content # <<>>)
            => calls[c].w = C1Expected(c)

C1_Witness ==
    /\ tRaw = SrcDefault
    /\ calls[1].pc = "done"
    /\ calls[1].msgs = <<Say("user", 1), Say("assistant", 2), Say("user", 3),
                         Say("assistant", 4), Say("user", 5)>>
    /\ Len(calls[1].w) = 3
    /\ calls[1].w[2].Data = [System |-> <<>>, Prompt |-> <<"m3">>, Response |-> <<"m4">>]
    /\ calls[1].w[3] = Block(<<FieldAction("Prompt")>>,
                             [System |-> <<>>, Prompt |-> <<"m5">>])

\* C2: with "messages" among the template's variables Execute is one
\* execution of the whole tree with System, Messages and Tools bound to the
\* collated system text, the collated list and the caller's tools; there is
\* no turn execution and no copy or cut of the tree.
C2_ModernSinglePass ==
    \A c \in Calls :
        (tState = "parsed" /\ "messages" \in SourceVars) =>
            /\ calls[c].pc \in {"idle", "done"}
            /\ calls[c].b = <<>>
            /\ calls[c].tree = NoTree
            /\ heap[c] = <<>>
            /\ heap[0] = CompiledRoot(tRaw)
            /\ calls[c].pc = "done" =>
                  calls[c].w =
                      << Block(CompiledRoot(tRaw),
                               [System |-> Collate(calls[c].msgs).system,
                                Messages |-> Collate(calls[c].msgs).collated,
                                Tools |-> calls[c].tools]) >>

C2_Witness ==
    /\ tRaw = SrcMessages
    /\ calls[1].pc = "done"
    /\ calls[1].msgs = <<Say("user", 1), Say("assistant", 2), Say("user", 3)>>
    /\ calls[1].tools # <<>>
    /\ Len(calls[1].w) = 1
    /\ Len(calls[1].w[1].Data.Messages) = 3

\* C3 as claimed: a call goes through the turn-by-turn conversion exactly
\* when the source references neither "messages" nor "response".
C3_AsClaimed ==
    \A c \in Calls :
        (tState = "parsed" /\ calls[c].pc # "idle") =>
            /\ TookLegacy(c) <=> NeedsResponse(SourceVars)
            /\ ~NeedsResponse(SourceVars) => TookModern(c)

\* C3 amended: a call goes through the turn-by-turn conversion exactly when
\* "messages" is not among the variables, whether or not "response" is.
C3_MessagesDecides ==
    \A c \in Calls :
        (tState = "parsed" /\ calls[c].pc # "idle") =>
            /\ TookLegacy(c) <=> "messages" \notin SourceVars
            /\ "messages" \in SourceVars => TookModern(c)

\* a source with .Response and without .Messages, converted turn by turn
C3_Witness ==
    /\ tRaw = SrcInst
    /\ "response" \in SourceVars
    /\ calls[1].pc = "done"
    /\ TookLegacy(1)
    /\ Len(calls[1].w) = 2

RECURSIVE TurnsAlone(_, _, _, _, _, _)
\* the loop of Execute run to its end on the tree root
TurnsAlone(root, col, i, prompt, resp, b) ==
    IF i > Len(col) THEN [b |-> b, prompt |-> prompt, err |-> FALSE]
    ELSE LET m == col[i]
             p == IF m.Role = "user" THEN m.Content ELSE prompt
             r == IF m.Role = "user" THEN resp ELSE m.Content
         IN  IF TurnComplete(i, Len(col), p, r)
             THEN IF ExecOwn(Block(root, TurnData(p, r))).err
                  THEN [b |-> b, prompt |-> p, err |-> TRUE]
                  ELSE TurnsAlone(root, col, i + 1, <<>>, <<>>,
                                  Append(b, Block(root, TurnData(p, r))))
             ELSE TurnsAlone(root, col, i + 1, p, r, b)

\* what Execute writes when no other call runs: nothing, when an execution
\* into the buffer fails
OutputAlone(raw, msgs, tools) ==
    LET root == ParsedRoot(raw)
        col  == Collate(msgs)
    IN  IF IsModern(VarsOf(root, CompiledDefs(raw)))
        THEN <<Block(root, ModernData(col.system, col.collated, msgs, tools))>>
        ELSE LET t   == TurnsAlone(root, col.collated, 1, <<>>, <<>>, <<>>)
                 fin == Block(DeleteFromCut(root, FALSE), FinalData(col.system, t.prompt))
             IN  IF t.err \/ ExecBare(fin).err THEN <<>> ELSE Append(t.b, fin)

\* C8: however the Execute calls on one Template interleave, the Template's
\* own tree stays as Parse left it and every call writes what it writes when
\* it runs alone.
C8_PrivateCopy ==
    tState = "parsed" =>
        /\ heap[0] = ParsedRoot(tRaw)
        /\ \A c \in Calls :
              calls[c].pc = "done" =>
                  calls[c].w = OutputAlone(tRaw, calls[c].msgs, calls[c].tools)

\* one call has written a turn and its cut while another holds its own cut tree
C8_Witness ==
    /\ tRaw = SrcInst
    /\ calls[1].pc = "done"
    /\ Len(calls[1].w) = 2
    /\ calls[2].pc \in {"final", "copy"}
    /\ calls[2].tree = 2
    /\ Len(heap[2]) < Len(heap[0])

----------------------------------------------------------------------------
(* Properties of Named *)

\* the edit distance of caller p's candidate to the i-th template it was given
Dist(p, i) == ComputeDistance(ncalls[p].s, ncalls[p].got.templates[i].Template)

\* C9: Named returns the template of least edit distance, the earliest of
\* those, if and only if that distance is below 100; otherwise, and for an
\* empty catalog, it returns no template and the not-found error.
C9_NearestBelowThreshold ==
    \A p \in Callers :
        (ncalls[p].pc = "returned" /\ ncalls[p].got.err = "") =>
            LET n    == Len(ncalls[p].got.templates)
                d    == SubSeq([i \in 1..n |-> Dist(p, i)], 1, n)
                near == {i \in 1..n : /\ \A j \in 1..n : d[i] <= d[j]
                                      /\ \A j \in 1..(i - 1) : d[j] > d[i]
                                      /\ d[i] < 100}
            IN  IF near = {}
                THEN ncalls[p].ret = [template |-> 0, err |-> "no matching template found"]
                ELSE /\ ncalls[p].ret.err = ""
                     /\ ncalls[p].ret.template \in near

\* two templates at distance 99, the least: the first is returned; and a
\* candidate one rune longer finds none
C9_Witness ==
    /\ ncalls[1].pc = "returned" /\ ncalls[2].pc = "returned"
    /\ ncalls[1].got.err = ""
    /\ Len(ncalls[1].got.templates) = 2
    /\ ncalls[1].s = Repeat("a", 100)
    /\ Dist(1, 1) = 99 /\ Dist(1, 2) = 99
    /\ ncalls[1].ret = [template |-> 1, err |-> ""]
    /\ ncalls[2].s = Repeat("a", 101)
    /\ ncalls[2].ret = [template |-> 0, err |-> "no matching template found"]

\* C10: the load runs at most once, and once it is done it has run exactly
\* once and its results are kept as they were; every caller is given those
\* results, a failure included, and a failed load is not run again.
C10_LoadedOnce ==
    /\ loads <= 1
    /\ once = "done" => (loads = 1 /\ onceVal = LoadTemplates(embedded))
    /\ once # "done" => (loads = 0 /\ onceVal = NoTemplates)
    /\ \A p \in Callers :
          ncalls[p].pc \in {"got", "returned"} =>
              /\ once = "done"
              /\ ncalls[p].got = onceVal
              /\ (ncalls[p].pc = "returned" /\ onceVal.err # "") =>
                    ncalls[p].ret = [template |-> 0, err |-> onceVal.err]

\* the load failed, and both callers were returned its error
C10_Witness ==
    /\ loads = 1
    /\ onceVal.err = "file does not exist"
    /\ \A p \in Callers : ncalls[p].pc = "returned" /\ ncalls[p].ret.err = onceVal.err

----------------------------------------------------------------------------
(* Properties of Parse and of the turn-by-turn conversion *)

\* C11: String() of a Template that Parse returned is the source handed to
\* Parse, whether or not Parse appended the Response node to the tree, and
\* stays so through every Execute call.
C11_RawRoundTrip == tState = "parsed" => String = tSrc

\* the default source, its tree one node longer, after an Execute call
C11_Witness ==
    /\ tState = "parsed"
    /\ tSrc = SrcDefault
    /\ heap[0] = <<FieldAction("Prompt"), FieldAction("Response")>>
    /\ calls[1].pc = "done"
    /\ Len(calls[1].w) = 2
    /\ String = "{{ .Prompt }}"

\* C12: the Template of the source "{{ .Prompt }}", executed on one user
\* message without images, writes that message's content and nothing else,
\* without error.
C12_DefaultVerbatim ==
    \A c \in Calls :
        ( /\ tState = "parsed" /\ tSrc = SrcDefault
          /\ calls[c].pc = "done"
          /\ Len(calls[c].msgs) = 1
          /\ calls[c].msgs[1].Role = "user"
          /\ calls[c].msgs[1].Images = <<>> )
            => /\ ~calls[c].err
               /\ calls[c].sink = calls[c].msgs[1].Content

C12_Witness ==
    /\ tSrc = SrcDefault
    /\ calls[1].pc = "done"
    /\ calls[1].msgs = <<Say("user", 1)>>
    /\ calls[1].sink = <<"m1">>

\* the identifiers of node n, lower-cased, include "response"
MentionsResponseAnyCase(n) ==
    \E k \in 1..Len(Identifiers(n)) : ToLower(Identifiers(n)[k]) = "response"

\* the nodes before the first that mentions the response in any case
BeforeResponse(nodes) ==
    LET at == {k \in 1..Len(nodes) : MentionsResponseAnyCase(nodes[k])}
    IN  IF at = {} THEN nodes
        ELSE SubSeq(nodes, 1, (CHOOSE k \in at : \A j \in at : k <= j) - 1)

\* C15 as claimed: the tree of the last execution is the Template's top-level
\* nodes before the first whose identifiers include "response" in any case.
C15_CutAnyCase ==
    \A c \in Calls :
        (tState = "parsed" /\ calls[c].pc \in {"final", "copy"}) =>
            heap[calls[c].tree] = BeforeResponse(heap[0])

\* the executions of whole turns among blocks
IsTurn(blk) == "Response" \in DOMAIN blk.Data

\* the collated positions i of a user message that block blk pairs with the
\* non-user message right after it
PairedAt(col, blk) ==
    {i \in 1..(Len(col) - 1) :
        /\ col[i].Role = "user" /\ col[i + 1].Role # "user"
        /\ blk.Data.Prompt = col[i].Content
        /\ blk.Data.Response = col[i + 1].Content}

\* C16 as claimed: every execution of a whole turn binds Prompt to a user
\* message and Response to the non-user message right after it, and the
\* turns come in conversation order.
C16_TurnPairing ==
    \A c \in Calls :
        TookLegacy(c) =>
            LET col == calls[c].collated
                b   == calls[c].b
            IN  /\ \A k \in 1..Len(b) : IsTurn(b[k]) => PairedAt(col, b[k]) # {}
                /\ \A k, l \in 1..Len(b) :
                      (k < l /\ IsTurn(b[k]) /\ IsTurn(b[l])) =>
                          \E i \in PairedAt(col, b[k]), j \in PairedAt(col, b[l]) : i < j

\* the prompt pending when the loop over col ends
RECURSIVE PendingPrompt(_, _, _, _)
PendingPrompt(col, i, prompt, resp) ==
    IF i > Len(col) THEN prompt
    ELSE LET p == IF col[i].Role = "user" THEN col[i].Content ELSE prompt
             r == IF col[i].Role = "user" THEN resp ELSE col[i].Content
         IN  IF i # Len(col) /\ p # <<>> /\ r # <<>>
             THEN PendingPrompt(col, i + 1, <<>>, <<>>)
             ELSE PendingPrompt(col, i + 1, p, r)

C18_ResponseSlot ==
    tState = "parsed" =>
        /\ "messages" \in Vars \/ "response" \in Vars
        /\ heap[0] = IF "messages" \notin SourceVars /\ "response" \notin SourceVars
                     THEN CompiledRoot(tSrc) \o <<response>>
                     ELSE CompiledRoot(tSrc)

\* a source without slot got one, and a call has run on it
C18_Witness ==
    /\ tState = "parsed"
    /\ tSrc = SrcDefault
    /\ SourceVars = {"prompt"}
    /\ Vars = {"prompt", "response"}
    /\ heap[0][Len(heap[0])] = response
    /\ calls[1].pc = "copy"

\* how often content is bound as Prompt or Response in the blocks
Bindings(b, content) ==
    Cardinality({k \in 1..Len(b) : b[k].Data.Prompt = content})
    + Cardinality({k \in 1..Len(b) : IsTurn(b[k]) /\ b[k].Data.Response = content})

\* C19 as claimed (for the contents that are not empty): the content of every
\* collated message but the last is bound in exactly one execution.
C19_NoMessageLost ==
    \A c \in Calls :
        (TookLegacy(c) /\ calls[c].pc = "done" /\ ~calls[c].err) =>
            \A i \in 1..(Len(calls[c].collated) - 1) :
                calls[c].collated[i].Content # <<>> =>
                    Bindings(calls[c].w, calls[c].collated[i].Content) = 1

IsTurnEnder(m) == m.Role \in {"assistant", "tool"}

\* C20: without an assistant or tool message the conversion executes no whole
\* turn and the cut tree once, with System the collated system text and
\* Prompt all the user contents merged; both are empty for no messages.
C20_NoCompletedTurn ==
    \A c \in Calls :
        ( /\ TookLegacy(c) /\ calls[c].pc \in {"copy", "done"}
          /\ SelectSeq(calls[c].msgs, IsTurnEnder) = <<>> )
            => /\ Len(calls[c].b) = 1
               /\ ~IsTurn(calls[c].b[1])
               /\ calls[c].b[1].Nodes = heap[calls[c].tree]
               /\ calls[c].b[1].Data =
                     [System |-> Collate(calls[c].msgs).system,
                      Prompt |-> JoinContents(NonSystem(calls[c].msgs))]
               /\ calls[c].msgs = <<>> =>
                     calls[c].b[1].Data = [System |-> <<>>, Prompt |-> <<>>]
               /\ (calls[c].pc = "done" /\ ~calls[c].err) => calls[c].w = calls[c].b

\* two user messages after a system message: one block, the two merged
C20_Witness ==
    /\ tSrc = SrcInst
    /\ calls[1].pc = "done"
    /\ calls[1].msgs = <<Say("system", 1), Say("user", 2), Say("user", 3)>>
    /\ Len(calls[1].w) = 1
    /\ calls[1].w[1].Data = [System |-> <<"m1">>, Prompt |-> <<"m2", NL2, "m3">>]

\* the bytes the renders of the blocks b[1..n] produce, in order: every
\* block but the last of a finished conversion is a turn, rendered by the
\* template itself; the last is rendered by the bare copy
RECURSIVE RenderedUpTo(_, _)
RenderedUpTo(b, n) ==
    IF n = 0 THEN <<>>
    ELSE RenderedUpTo(b, n - 1) \o
            (IF n = Len(b) THEN ExecBare(b[n]).out ELSE ExecOwn(b[n]).out)

\* every render of b[1..Len(b)] succeeded
AllRendersSucceeded(b) ==
    \A n \in 1..Len(b) :
        ~(IF n = Len(b) THEN ExecBare(b[n]).err ELSE ExecOwn(b[n]).err)

\* C21: on the legacy path the sink is written only by the final copy: while
\* the call is still rendering, and when it returned an error, the sink holds
\* nothing, whatever was rendered into the buffer before; when it returned
\* without error every render succeeded and the sink holds, written at once,
\* the renders of the blocks in order.
C21_AllOrNothing ==
    \A c \in Calls :
        TookLegacy(c) =>
            /\ calls[c].pc # "done" => calls[c].sink = <<>> /\ calls[c].w = <<>>
            /\ (calls[c].pc = "done" /\ calls[c].err) =>
                    calls[c].sink = <<>> /\ calls[c].w = <<>>
            /\ (calls[c].pc = "done" /\ ~calls[c].err) =>
                    /\ AllRendersSucceeded(calls[c].b)
                    /\ calls[c].w = calls[c].b
                    /\ calls[c].sink = calls[c].buf
                    /\ calls[c].sink = RenderedUpTo(calls[c].b, Len(calls[c].b))

\* a turn whose render failed after it had written the prompt to the buffer:
\* the call returned the error and the sink is empty
C21_Witness ==
    /\ tSrc = SrcChain
    /\ calls[1].pc = "done"
    /\ calls[1].err
    /\ TookLegacy(1)
    /\ calls[1].buf # <<>>
    /\ calls[1].sink = <<>>

----------------------------------------------------------------------------
(* Properties of tempzipfs.Open *)

\* C13 as claimed: an Open with a name that is not local returns the
\* insecure-path error, whatever the size of the entry, and no file is made.
C13_RejectsNonLocal ==
    \A p \in Openers :
        (fcalls[p].pc = "returned" /\ ~IsLocal(fcalls[p].name, goos)) =>
            /\ fcalls[p].ret = Failure("zip: insecure file path")
            /\ files[Join(fcalls[p].name)] = NoFile

\* the call is on an entry below the threshold
OnSmallEntry(p) ==
    /\ fcalls[p].pc = "returned"
    /\ HasEntry(fcalls[p].name)
    /\ EntryOfName(fcalls[p].name).Size < 33554432

\* C14 as claimed: only the first Open on a large entry copies it, and an
\* entry below 32 MiB is served from the archive and never staged.
C14_CopiedOnFirstAccess ==
    \A p \in Openers :
        /\ fcalls[p].copied => fcalls[p].first
        /\ OnSmallEntry(p) =>
              /\ fcalls[p].ret = ArchiveFile(fcalls[p].name)
              /\ files[Join(fcalls[p].name)] = NoFile

\* C14 amended: an Open copies the entry only when it found no staged file
\* (so not only the first Open: also one after a failed os.Create, and two
\* that overlap); an Open that finds the staged file returns it without
\* copying; once an Open has returned the staged file, the file stays, so
\* every later Open finds it; a small entry is served from the archive and
\* never staged.
C14_CopiedWhenNotFound ==
    /\ \A p \in Openers :
          /\ fcalls[p].copied => ~fcalls[p].found
          /\ fcalls[p].pc \in {"create", "copy"} => ~fcalls[p].found
          /\ fcalls[p].pc = "open" => (fcalls[p].found \/ fcalls[p].copied)
          /\ (fcalls[p].found /\ fcalls[p].pc = "returned") =>
                \/ fcalls[p].ret = StagedFile(Join(fcalls[p].name))
                \/ fcalls[p].ret = Failure("open failed")
          /\ fcalls[p].ret.kind = "staged" =>
                /\ fcalls[p].size >= 33554432
                /\ files[fcalls[p].ret.path] # NoFile
          /\ OnSmallEntry(p) =>
                /\ fcalls[p].ret = ArchiveFile(fcalls[p].name)
                /\ files[Join(fcalls[p].name)] = NoFile
    /\ \A name \in OpenNames : served[name] => files[Join(name)] # NoFile

\* a later Open served from the staged copy without copying, and a small
\* entry served from the archive
C14_Witness ==
    /\ fcalls[1].pc = "returned"
    /\ fcalls[1].ret = StagedFile(<<"big">>)
    /\ fcalls[1].found /\ ~fcalls[1].copied /\ ~fcalls[1].first
    /\ files[<<"big">>] = 33554432
    /\ fcalls[2].pc = "returned"
    /\ fcalls[2].ret = ArchiveFile(<<"small">>)
    /\ files[<<"small">>] = NoFile

\* C22 as claimed: whatever calls came before or run beside it, an Open that
\* returned the staged file returned a file that holds the whole entry.
C22_StagedComplete ==
    \A p \in Openers :
        (fcalls[p].pc = "returned" /\ fcalls[p].ret.kind = "staged")
            => files[fcalls[p].ret.path] = fcalls[p].size

\* C23 as claimed: the file a successful Open returned has not been closed
\* by Open, for an entry served from the archive as for a staged one, and
\* the archive's file, when it is not the value returned, is closed at the
\* return.
C23_ReturnedOpen ==
    \A p \in Openers :
        fcalls[p].pc = "returned" =>
            /\ (fcalls[p].ret.err = "" /\ fcalls[p].ret.kind # "none")
                    => ~fcalls[p].ret.closed
            /\ fcalls[p].ret.kind # "archive" => fcalls[p].r \in {"none", "closed"}

\* the name has a ".." element
HasDotDot(name) == \E i \in 1..Len(name) : name[i] = ".."

\* the path below the staging directory names a file inside it: it has an
\* element, none of them leads up or nowhere, and on Windows none of them is
\* a device
InsideStaging(path) ==
    /\ Len(path) > 0
    /\ \A i \in 1..Len(path) : path[i] \notin {"", ".", ".."}
    /\ goos = "windows" => \A i \in 1..Len(path) : path[i] \notin {"NUL", "COM1"}

\* C24 as claimed: every file Open makes or returns lies inside the staging
\* directory, a name that resolves above the root makes no file, and an Open
\* with a name that has inner ".." elements and stays local is not turned
\* away for its name: what it stages and returns is at the cleaned path.
C24_AsClaimed ==
    /\ \A path \in StagePaths : files[path] # NoFile => InsideStaging(path)
    /\ \A p \in Openers :
          /\ fcalls[p].ret.kind = "staged" => InsideStaging(fcalls[p].ret.path)
          /\ ( /\ fcalls[p].pc = "returned"
               /\ HasDotDot(fcalls[p].name)
               /\ Clean(<<>>, fcalls[p].name)[1] # ".."
               /\ HasEntry(Clean(<<>>, fcalls[p].name)) )
                 => /\ fcalls[p].ret.err # "invalid argument"
                    /\ fcalls[p].ret.kind = "staged" =>
                          fcalls[p].ret.path = Clean(<<>>, fcalls[p].name)

\* C24: every file Open makes or returns lies inside the staging directory,
\* at the name, taken as it is, of an entry of the threshold's size or more;
\* a call that goes on to the staging directory has a name without "..", so
\* that a name with a ".." element, leaving the root or not, is turned away
\* by the archive as invalid and makes no file, at its cleaned path or
\* anywhere.
C24_StagedInside ==
    /\ \A path \in StagePaths :
          files[path] # NoFile =>
              /\ InsideStaging(path)
              /\ \E e \in archive : e.Name = path /\ e.Size >= StageThreshold
    /\ \A p \in Openers :
          /\ fcalls[p].ret.kind = "staged" =>
                /\ InsideStaging(fcalls[p].ret.path)
                /\ fcalls[p].ret.path = fcalls[p].name
          /\ fcalls[p].pc \in {"stat", "create", "copy", "open"} =>
                /\ InsideStaging(fcalls[p].name)
                /\ Join(fcalls[p].name) = fcalls[p].name
          /\ (fcalls[p].pc # "idle" /\ HasDotDot(fcalls[p].name)) =>
                /\ fcalls[p].pc = "returned"
                /\ fcalls[p].ret = Failure("invalid argument")
                /\ fcalls[p].r = "none"
                /\ ~opened[fcalls[p].name]

\* "big" is staged and returned to one call while another, with the name
\* "a/../big" that cleans to it, is turned away as invalid
C24_Witness ==
    /\ fcalls[1].pc = "returned"
    /\ fcalls[1].ret = StagedFile(<<"big">>)
    /\ files[<<"big">>] = StageThreshold
    /\ fcalls[2].pc = "returned"
    /\ fcalls[2].name = <<"a", "..", "big">>
    /\ fcalls[2].ret = Failure("invalid argument")

====
